---- MODULE Spec2Model ----
(***************************************************************************)
(* Model of the TELBOT video bot (src/bot.py): the in-memory session store *)
(* user_sessions, the four message handlers (start, help_cmd, reset_cmd,   *)
(* text) and the Sora job client (create_video_job, get_job_status,        *)
(* wait_for_video) with the tenacity retry decorators that wrap it.        *)
(*                                                                         *)
(* A Python str is a sequence of characters; a character is a one-letter   *)
(* TLA+ string, except the tokens "sup2" (U+00B2, superscript two) and     *)
(* "tab".  A dict is a function whose DOMAIN is its key set.               *)
(* Time is counted in sixteenths of a second, which makes every value of   *)
(* the polling backoff (5, 7.5, 11.25, 16.875, 20 s) an integer.           *)
(***************************************************************************)
EXTENDS Integers, Sequences, FiniteSets, TLC

VARIABLES
    user_sessions,  \* bot.py:150  dict chat_id -> session dict
    pc,             \* position of the update being handled ("idle" = none)
    cur,            \* chat_id of the update being handled (0 when idle)
    inbound,        \* text of the update handled last
    reply,          \* last message sent while handling that update (NoReply: none)
    payload,        \* JSON body of the last POST /v2/videos (None before)
    attempt,        \* tenacity attempt_number of the call in progress
    last_attempt,   \* tenacity retry_state.outcome: what the last attempt raised
    job_id,         \* value returned by create_video_job
    elapsed,        \* time.time() - start_time inside wait_for_video
    backoff,        \* local variable backoff of wait_for_video
    data,           \* local variable data of wait_for_video
    polls,          \* non-terminal statuses seen by this wait_for_video call
    slept,          \* length of the last sleep of this run (tenacity wait or time.sleep)
    exc,            \* exception in flight in the run handler (NoExc if none)
    url,            \* value returned by wait_for_video
    outcome         \* how the last handled update's job run ended

vars == <<user_sessions, pc, cur, inbound, reply, payload, attempt, last_attempt,
          job_id, elapsed, backoff, data, polls, slept, exc, url, outcome>>

(***************************************************************************)
(* Bounds of the model.                                                    *)
(***************************************************************************)
\* Longest asset list a session is driven to.
MaxAssets == 2
\* Non-terminal statuses the remote service reports to one wait_for_video
\* call before it must answer with something else or stall.
MaxPolls == 2

Chats == {1, 2}

\* Python None where a str is expected
None == <<"<None>">>
\* no exception in flight
NoExc == [type |-> "none"]
\* no request body sent yet
NoPayload == [prompt |-> None]
\* no status payload fetched yet
NoData == [status |-> None]
\* no message sent yet
NoReply == [to |-> 0, kind |-> "none"]

(***************************************************************************)
(* Python str operations, on sequences of characters.                      *)
(***************************************************************************)
UpperLetters == <<"A","B","C","D","E","F","G","H","I","J","K","L","M",
                  "N","O","P","Q","R","S","T","U","V","W","X","Y","Z">>
LowerLetters == <<"a","b","c","d","e","f","g","h","i","j","k","l","m",
                  "n","o","p","q","r","s","t","u","v","w","x","y","z">>

\* str.lower() on one character
LowerChar(c) ==
    IF \E i \in 1..26 : UpperLetters[i] = c
    THEN LowerLetters[CHOOSE i \in 1..26 : UpperLetters[i] = c]
    ELSE c

\* str.lower()
Lower(s) == [i \in 1..Len(s) |-> LowerChar(s[i])]

Whitespace == {" ", "tab"}

\* str.strip()
Strip(s) ==
    LET keep == {i \in 1..Len(s) : s[i] \notin Whitespace}
    IN  IF keep = {} THEN <<>>
        ELSE LET lo == CHOOSE i \in keep : \A j \in keep : i <= j
                 hi == CHOOSE i \in keep : \A j \in keep : j <= i
             IN  SubSeq(s, lo, hi)

\* sep in s, for a one-character sep
Contains(s, sep) == \E i \in 1..Len(s) : s[i] = sep

\* str.split(sep), for a one-character sep
RECURSIVE Split(_, _)
Split(s, sep) ==
    IF ~Contains(s, sep) THEN <<s>>
    ELSE LET i == CHOOSE k \in 1..Len(s) :
                      s[k] = sep /\ \A j \in 1..(k-1) : s[j] # sep
         IN  <<SubSeq(s, 1, i-1)>> \o Split(SubSeq(s, i+1, Len(s)), sep)

\* str.startswith(p)
StartsWith(s, p) == Len(s) >= Len(p) /\ SubSeq(s, 1, Len(p)) = p

\* s[:n]
Take(s, n) == SubSeq(s, 1, IF Len(s) < n THEN Len(s) ELSE n)

DecimalDigits == <<"0","1","2","3","4","5","6","7","8","9">>

IsDecimal(c) == \E d \in 1..10 : DecimalDigits[d] = c

\* str.isdigit(): every character has Numeric_Type Digit or Decimal, and
\* there is at least one.  U+00B2 is a Digit that is not a Decimal.
IsDigit(s) == Len(s) > 0 /\ \A i \in 1..Len(s) : IsDecimal(s[i]) \/ s[i] = "sup2"

DigitValue(c) == (CHOOSE d \in 1..10 : DecimalDigits[d] = c) - 1

RECURSIVE DecimalValue(_)
DecimalValue(s) ==
    IF Len(s) = 0 THEN 0
    ELSE 10 * DecimalValue(SubSeq(s, 1, Len(s)-1)) + DigitValue(s[Len(s)])

\* int(s) raises ValueError: for a str that passed isdigit(), when some
\* character is not a Decimal
IntRaises(s) == \E i \in 1..Len(s) : ~IsDecimal(s[i])

\* int(s), when it does not raise
IntOf(s) == DecimalValue(s)

Max(a, b) == IF a >= b THEN a ELSE b
Min(a, b) == IF a <= b THEN a ELSE b

\* int(value), capped at 45 but with no floor
clamp_without_floor(value) == Min(IntOf(value), 45)

\* bot.py:174 clamp_seconds (its int(value) raises where IntRaises says)
clamp_seconds(value) == Max(10, Min(IntOf(value), 45))

(***************************************************************************)
(* Inbound texts.                                                          *)
(***************************************************************************)
mGo       == <<"/","g","o">>
mGoUpper  == <<" ","/","G","O"," ">>
mFull     == <<"A","|","B","|","C","|","2","0","|","9",":","1","6">>
mMin      == <<" ","A"," ","|","B","|"," ","C">>
mLow      == <<"A","|","B","|","C","|","5","|","1",":","1">>
mHigh     == <<"A","|","B","|","C","|","1","0","0","|","1","6",":","9">>
mNegative == <<"A","|","B","|","C","|","-","5">>
mNotNum   == <<"A","|","B","|","C","|","x","|","9",":","1","6">>
mBadAspect == <<"A","|","B","|","C","|","|","4",":","3">>
mSuper    == <<"A","|","B","|","C","|","sup2">>
mTwo      == <<"A","|","B">>
mEmptyAud == <<"A","|"," ","|","C">>
mUrl      == <<"h","t","t","p",":","a">>
mUrlPipe  == <<"H","T","T","P","|","b">>
mJunk     == <<"h","i">>
mEmpty    == <<>>

Messages == {mGo, mGoUpper, mFull, mMin, mLow, mHigh, mNegative, mNotNum,
             mBadAspect, mSuper, mTwo, mEmptyAud, mUrl, mUrlPipe, mJunk,
             mEmpty}

sGo   == <<"/","g","o">>
sHttp == <<"h","t","t","p">>
sPipe == "|"

Aspects == { <<"9",":","1","6">>, <<"1",":","1">>, <<"1","6",":","9">> }
DefaultAspect == <<"9",":","1","6">>

\* update.message.reply_text(...) of each handler, by the text it sends
Reply(c, k) == [to |-> c, kind |-> k]

(***************************************************************************)
(* dict operations on user_sessions                                        *)
(***************************************************************************)
\* d[k] = v
DictSet(d, k, v) == [x \in DOMAIN d \cup {k} |-> IF x = k THEN v ELSE d[x]]

\* d.pop(k, None)
DictPop(d, k) == [x \in DOMAIN d \ {k} |-> d[x]]

ParamKeys == {"product", "audience", "tone", "seconds", "aspect"}

(***************************************************************************)
(* bot.py:240-277, the parameter-line branch of text(): what it replies    *)
(* and the session it stores, if any.  default_seconds is the value at     *)
(* bot.py:252, and check_empty says whether the test at bot.py:259 is      *)
(* made.                                                                   *)
(***************************************************************************)
ParseLineWith(text_content, default_seconds, check_empty) ==
    LET raw      == Split(text_content, sPipe)
        parts    == [i \in 1..Len(raw) |-> Strip(raw[i])]
        product  == Take(parts[1], 120)
        audience == Take(parts[2], 120)
        tone     == Take(parts[3], 60)
        numeric  == Len(parts) > 3 /\ IsDigit(parts[4])
        seconds  == IF numeric THEN clamp_seconds(parts[4]) ELSE default_seconds
        aspect   == IF Len(parts) > 4 /\ parts[5] \in Aspects
                    THEN parts[5] ELSE DefaultAspect
    IN  IF Len(parts) < 3 THEN [kind |-> "min_format"]
        ELSE IF numeric /\ IntRaises(parts[4]) THEN [kind |-> "format"]
        ELSE IF check_empty /\ (product = <<>> \/ audience = <<>> \/ tone = <<>>)
             THEN [kind |-> "invalid"]
        ELSE [kind |-> "ok",
              session |-> [product |-> product, audience |-> audience,
                           tone |-> tone, seconds |-> seconds,
                           aspect |-> aspect, assets |-> <<>>]]

\* a parameter-line branch that stores the line without the test for empty
\* required fields
ParseLineUnchecked(text_content) == ParseLineWith(text_content, 20, FALSE)

\* a parameter-line branch whose default duration is 30
ParseLineDefault30(text_content) == ParseLineWith(text_content, 30, TRUE)

ParseLine(text_content) == ParseLineWith(text_content, 20, TRUE)

(***************************************************************************)
(* bot.py:153 make_script: the f-string, with each fixed piece of text as  *)
(* one token and the duration formatted in decimal.                        *)
(***************************************************************************)
RECURSIVE DecimalString(_)
\* f"{n}" for an int n
DecimalString(n) ==
    IF n < 0 THEN <<"-">> \o DecimalString(0 - n)
    ELSE IF n < 10 THEN <<DecimalDigits[n + 1]>>
    ELSE DecimalString(n \div 10) \o <<DecimalDigits[(n % 10) + 1]>>

\* a script that names the audience where the tone belongs
make_script_tone_lost(product, audience, tone, seconds) ==
    <<"Kratka video reklama ", "(">> \o DecimalString(seconds)
      \o <<"s", ")", " za ", "'">> \o product
      \o <<"'", ". ", "Tseleva auditoria: ">> \o audience
      \o <<". ", "Ton: ">> \o audience
      \o <<". ", "3-4 dinamichni stseni ... Dobavi chetlivi subtitri.">>

make_script(product, audience, tone, seconds) ==
    <<"Kratka video reklama ", "(">> \o DecimalString(seconds)
      \o <<"s", ")", " za ", "'">> \o product
      \o <<"'", ". ", "Tseleva auditoria: ">> \o audience
      \o <<". ", "Ton: ">> \o tone
      \o <<". ", "3-4 dinamichni stseni ... Dobavi chetlivi subtitri.">>

(***************************************************************************)
(* The Sora API as the client sees it: what requests.post / requests.get   *)
(* return or raise.                                                        *)
(***************************************************************************)
\* n copies of c
Rep(c, n) == [i \in 1..n |-> c]

ConnectionError == [type |-> "ConnectionError", what |-> "connection failed"]
NetError == [kind |-> "raise"]
Http(code, text, json) == [kind |-> "http", code |-> code, text |-> text, json |-> json]

\* resp.json() of a body that is not JSON raises
NotJson == [notjson |-> TRUE]
EmptyDict == [k \in {} |-> ""]

\* dict.get(k): None when the key is absent
Get(d, k) == IF k \in DOMAIN d THEN d[k] ELSE None

\* Python truthiness of a value of a JSON object: None and "" are falsy
Falsy(v) == v = None \/ v = <<>>

\* a or b
Or(a, b) == IF Falsy(a) THEN b ELSE a

PostResponses ==
    { NetError,
      Http(500, Rep("x", 301), NotJson),
      Http(400, <<"b","a","d">>, NotJson),
      Http(200, <<"o","k">>, NotJson),
      Http(200, <<>>, EmptyDict),
      Http(200, <<>>, [job_id |-> <<"J","1">>, id |-> <<"J","2">>]),
      Http(201, <<>>, [id |-> <<"J","2">>]) }

sCompleted == <<"c","o","m","p","l","e","t","e","d">>
sFailed    == <<"f","a","i","l","e","d">>
sError     == <<"e","r","r","o","r">>
sCanceled  == <<"c","a","n","c","e","l","e","d">>
sQueued    == <<"q","u","e","u","e","d">>
uOut       == <<"U","1">>
uVideo     == <<"U","2">>

StatusPayloads ==
    { [status |-> sQueued],
      EmptyDict,
      [status |-> sCompleted, output_url |-> uOut, video_url |-> uVideo],
      [status |-> <<"C","O","M","P","L","E","T","E","D">>, video_url |-> uVideo],
      [status |-> sCompleted],
      [status |-> sCompleted, output_url |-> <<>>],
      [status |-> sFailed],
      [status |-> <<"E","r","r","o","r">>],
      [status |-> sCanceled] }

GetResponses ==
    { NetError, Http(503, <<"b","u","s","y">>, NotJson) }
    \cup { Http(200, <<>>, d) : d \in StatusPayloads }

\* seconds, in sixteenths of a second
Sec(n) == n * 16

\* bot.py:107 hard_timeout default
hard_timeout == 900

\* time a request takes before it returns or raises: at once, or a stall
\* as long as the hard timeout
Latencies == {0, Sec(hard_timeout)}

(***************************************************************************)
(* Exceptions                                                              *)
(***************************************************************************)
RuntimeError(what, detail) == [type |-> "RuntimeError", what |-> what, detail |-> detail]
TimeoutError == [type |-> "TimeoutError", what |-> "Video generation timed out"]
TelegramError == [type |-> "TelegramError", what |-> "send failed"]
JSONDecodeError == [type |-> "JSONDecodeError", what |-> "not JSON"]

\* tenacity.RetryError(last_attempt), raised when the stop condition holds
\* (the decorators at bot.py:50 and bot.py:94 do not set reraise)
RetryError(last) == [type |-> "RetryError", last_attempt |-> last]

\* str(e), the text the run handler puts after the failure indicator
\* (bot.py:233).  str(RetryError) is "RetryError[<Future ... raised T>]":
\* it names the type of the last attempt's exception and nothing else of it.
StrExc(e) ==
    IF e.type = "RetryError"
    THEN [text |-> "RetryError[<Future state=finished raised>]", raised |-> e.last_attempt.type]
    ELSE IF e.type = "RuntimeError" THEN [text |-> e.what, detail |-> e.detail]
    ELSE [text |-> e.what]

(***************************************************************************)
(* Job client                                                              *)
(***************************************************************************)
Returned(v) == [ok |-> TRUE, value |-> v]
Raised(e) == [ok |-> FALSE, exc |-> e]

\* bot.py:70 the request body of create_video_job
Payload(script, assets, style, aspect, duration_sec) ==
    [prompt |-> script, style |-> style, aspect_ratio |-> aspect,
     duration |-> duration_sec,
     assets |-> [i \in 1..Len(assets) |-> [url |-> assets[i]]]]

\* bot.py:77-91 one attempt of create_video_job, given what requests.post did
create_video_job_once(resp) ==
    IF resp.kind = "raise" THEN Raised(ConnectionError)
    ELSE IF resp.code >= 400
    THEN Raised(RuntimeError("Sora create job error",
                             [status_code |-> resp.code, excerpt |-> Take(resp.text, 300)]))
    ELSE IF resp.json = NotJson THEN Raised(JSONDecodeError)
    ELSE LET id == Or(Get(resp.json, "job_id"), Get(resp.json, "id"))
         IN  IF Falsy(id)
             THEN Raised(RuntimeError("Unexpected Sora response", resp.json))
             ELSE Returned(id)

\* bot.py:97-104 one attempt of get_job_status, given what requests.get did
get_job_status_once(resp) ==
    IF resp.kind = "raise" THEN Raised(ConnectionError)
    ELSE IF resp.code >= 400
    THEN Raised(RuntimeError("Sora get job error",
                             [status_code |-> resp.code, excerpt |-> Take(resp.text, 300)]))
    ELSE IF resp.json = NotJson THEN Raised(JSONDecodeError)
    ELSE Returned(resp.json)

RECURSIVE Pow2(_)
Pow2(n) == IF n = 0 THEN 1 ELSE 2 * Pow2(n - 1)

\* tenacity wait_exponential(multiplier=1, min=lo, max=hi) after the failed
\* attempt number n, in seconds
wait_exponential(lo, hi, n) == Max(lo, Min(Pow2(n - 1), hi))

\* a stop condition that allows one attempt more
SubmitAttemptsOffByOne == 3 + 1

\* bot.py:50 stop_after_attempt(3)
SubmitAttempts == 3
\* a status check that stops after as many attempts as the submission
StatusAttemptsAsSubmit == SubmitAttempts

\* bot.py:94 stop_after_attempt(5)
StatusAttempts == 5

\* bot.py:126-135 what one iteration of the wait_for_video loop does with the
\* payload get_job_status returned
StatusOf(d) == Lower(Or(Get(d, "status"), <<>>))

\* a list of failure statuses that leaves out "canceled"
TerminalFailuresWithoutCanceled == {sFailed, sError}

TerminalFailures == {sFailed, sError, sCanceled}

\* an iteration that returns whatever the completed payload holds
wait_for_video_step_unchecked(d) ==
    IF StatusOf(d) = sCompleted
    THEN Returned(Or(Get(d, "output_url"), Get(d, "video_url")))
    ELSE IF StatusOf(d) \in TerminalFailures
    THEN Raised(RuntimeError("Job failed", d))
    ELSE [ok |-> TRUE, sleep |-> TRUE]

wait_for_video_step(d) ==
    IF StatusOf(d) = sCompleted
    THEN LET u == Or(Get(d, "output_url"), Get(d, "video_url"))
         IN  IF Falsy(u)
             THEN Raised(RuntimeError("Completed job has no output URL", d))
             ELSE Returned(u)
    ELSE IF StatusOf(d) \in TerminalFailures
    THEN Raised(RuntimeError("Job failed", d))
    ELSE [ok |-> TRUE, sleep |-> TRUE]

\* a backoff that doubles, as the waits between attempts do
NextBackoffDoubling(b) == Min(b * 2, Sec(20))

\* bot.py:135 backoff = min(backoff * 1.5, 20), in sixteenths of a second
NextBackoff(b) == Min((b * 3) \div 2, Sec(20))

\* time.time() - start_time after d more time has passed.  The code only
\* compares it with hard_timeout, so the model lets it saturate there.
Tick(e, d) == Min(e + d, Sec(hard_timeout))

\* a loop condition that is always true
WithinTimeoutAlways(e) == TRUE

\* bot.py:124 the loop condition time.time() - start_time < hard_timeout
WithinTimeout(e) == e < Sec(hard_timeout)

NoRun == [result |-> "none"]

(***************************************************************************)
(* Initial state: bot.py:150, an empty session store and no update handled *)
(***************************************************************************)
Init ==
    /\ user_sessions = [c \in {} |-> NoExc]
    /\ pc = "idle"
    /\ cur = 0
    /\ inbound = None
    /\ reply = NoReply
    /\ payload = NoPayload
    /\ attempt = 0
    /\ last_attempt = NoExc
    /\ data = NoData
    /\ job_id = None
    /\ elapsed = 0
    /\ backoff = 0
    /\ polls = 0
    /\ slept = 0
    /\ exc = NoExc
    /\ url = None
    /\ outcome = NoRun

jobvars == <<payload, attempt, last_attempt, job_id, elapsed, backoff, data, polls,
             slept, exc, url>>

\* An update handled to completion by a handler that runs no job.
Handled(c, m, sessions, r) ==
    /\ user_sessions' = sessions
    /\ cur' = c
    /\ inbound' = m
    /\ reply' = r
    /\ outcome' = NoRun
    /\ UNCHANGED <<pc, jobvars>>

sStart == <<"/","s","t","a","r","t">>
sHelp  == <<"/","h","e","l","p">>
sReset == <<"/","r","e","s","e","t">>

\* bot.py:182 start
Start(c) ==
    /\ pc = "idle"
    /\ Handled(c, sStart, DictSet(user_sessions, c, [assets |-> <<>>]), Reply(c, "INTRO"))

\* bot.py:188 help_cmd
HelpCmd(c) ==
    /\ pc = "idle"
    /\ Handled(c, sHelp, user_sessions, Reply(c, "INTRO"))

\* bot.py:193 reset_cmd
ResetCmd(c) ==
    /\ pc = "idle"
    /\ Handled(c, sReset, DictPop(user_sessions, c), Reply(c, "reset"))

\* bot.py:202
TextContent(m) == Strip(m)

\* bot.py:205
IsGo(m) == Lower(TextContent(m)) = sGo

\* bot.py:207 the run trigger is accepted
Complete(sessions, c) ==
    /\ c \in DOMAIN sessions
    /\ \A k \in ParamKeys : k \in DOMAIN sessions[c]

\* a parameter-line test that does not ask for a session to exist
IsParamLineAnywhere(sessions, c, m) ==
    /\ Contains(TextContent(m), sPipe)
    /\ c \in DOMAIN sessions => "product" \notin DOMAIN sessions[c]

\* bot.py:239 the parameter-line branch is taken
IsParamLine(sessions, c, m) ==
    /\ Contains(TextContent(m), sPipe)
    /\ c \in DOMAIN sessions
    /\ "product" \notin DOMAIN sessions[c]

\* bot.py:281
LooksLikeUrl(m) == StartsWith(Lower(TextContent(m)), sHttp)

\* a rejected run trigger that also drops the session
TextGoRejectedClears(c, m) ==
    /\ pc = "idle"
    /\ IsGo(m)
    /\ ~Complete(user_sessions, c)
    /\ Handled(c, m, DictPop(user_sessions, c), Reply(c, "missing"))

\* bot.py:205-212 text(): run trigger without a complete session
TextGoRejected(c, m) ==
    /\ pc = "idle"
    /\ IsGo(m)
    /\ ~Complete(user_sessions, c)
    /\ Handled(c, m, user_sessions, Reply(c, "missing"))

\* a run trigger that is taken up while another handler is still running
TextGoAcceptedWhileRunning(c, m) ==
    /\ IsGo(m)
    /\ Complete(user_sessions, c)
    /\ cur' = c
    /\ inbound' = m
    /\ outcome' = NoRun
    /\ \E sent \in BOOLEAN :
         IF sent
         THEN /\ reply' = Reply(c, "starting")
              /\ pc' = "submit"
              /\ attempt' = 1
              /\ exc' = NoExc
         ELSE /\ reply' = NoReply
              /\ pc' = "except"
              /\ exc' = TelegramError
              /\ UNCHANGED attempt
    /\ UNCHANGED <<user_sessions, payload, last_attempt, job_id, elapsed, backoff,
                   data, polls, slept, url>>

\* bot.py:205-221 text(): run trigger on a complete session, up to the
\* progress message; the job client runs in the steps that follow
TextGoAccepted(c, m) ==
    /\ pc = "idle"
    /\ IsGo(m)
    /\ Complete(user_sessions, c)
    /\ cur' = c
    /\ inbound' = m
    /\ outcome' = NoRun
    /\ \E sent \in BOOLEAN :
         IF sent
         THEN /\ reply' = Reply(c, "starting")
              /\ pc' = "submit"
              /\ attempt' = 1
              /\ exc' = NoExc
         ELSE /\ reply' = NoReply
              /\ pc' = "except"
              /\ exc' = TelegramError
              /\ UNCHANGED attempt
    /\ UNCHANGED <<user_sessions, payload, last_attempt, job_id, elapsed, backoff,
                   data, polls, slept, url>>

\* a parameter-line branch that empties the session when it refuses a line
TextParamsResets(c, m) ==
    /\ pc = "idle"
    /\ ~IsGo(m)
    /\ IsParamLine(user_sessions, c, m)
    /\ LET r == ParseLine(TextContent(m))
       IN  IF r.kind = "ok"
           THEN Handled(c, m, DictSet(user_sessions, c, r.session), Reply(c, "ok_params"))
           ELSE Handled(c, m, DictSet(user_sessions, c, [assets |-> <<>>]), Reply(c, r.kind))

\* bot.py:239-277 text(): parameter line
TextParams(c, m) ==
    /\ pc = "idle"
    /\ ~IsGo(m)
    /\ IsParamLine(user_sessions, c, m)
    /\ LET r == ParseLine(TextContent(m))
       IN  IF r.kind = "ok"
           THEN Handled(c, m, DictSet(user_sessions, c, r.session), Reply(c, "ok_params"))
           ELSE Handled(c, m, user_sessions, Reply(c, r.kind))

\* an asset branch that puts the new link in front of the earlier ones
TextAssetInFront(c, m) ==
    /\ pc = "idle"
    /\ ~IsGo(m)
    /\ ~IsParamLine(user_sessions, c, m)
    /\ c \in DOMAIN user_sessions
    /\ LooksLikeUrl(m)
    /\ Len(user_sessions[c].assets) < MaxAssets
    /\ Handled(c, m,
               [user_sessions EXCEPT ![c].assets = <<TextContent(m)>> \o @],
               Reply(c, "asset_added"))

\* bot.py:280-285 text(): asset URL
TextAsset(c, m) ==
    /\ pc = "idle"
    /\ ~IsGo(m)
    /\ ~IsParamLine(user_sessions, c, m)
    /\ c \in DOMAIN user_sessions
    /\ LooksLikeUrl(m)
    /\ Len(user_sessions[c].assets) < MaxAssets
    /\ Handled(c, m,
               [user_sessions EXCEPT ![c].assets = Append(@, TextContent(m))],
               Reply(c, "asset_added"))

\* bot.py:286-289 text(): not a URL
TextNotUrl(c, m) ==
    /\ pc = "idle"
    /\ ~IsGo(m)
    /\ ~IsParamLine(user_sessions, c, m)
    /\ c \in DOMAIN user_sessions
    /\ ~LooksLikeUrl(m)
    /\ Handled(c, m, user_sessions, Reply(c, "not_url"))

\* bot.py:290-292 text(): no session
TextNoSession(c, m) ==
    /\ pc = "idle"
    /\ ~IsGo(m)
    /\ ~IsParamLine(user_sessions, c, m)
    /\ c \notin DOMAIN user_sessions
    /\ Handled(c, m, user_sessions, Reply(c, "write_start"))

(***************************************************************************)
(* The run: bot.py:213-236.  The handler is one coroutine; the steps below *)
(* are its positions.  session is the dict the handler fetched at          *)
(* bot.py:206, which is still user_sessions[cur] while it runs.  Each step *)
(* draws what the remote service does from the sets it is given.           *)
(***************************************************************************)
RunPayload(session) ==
    Payload(make_script(session.product, session.audience, session.tone, session.seconds),
            session.assets, session.tone, session.aspect, session.seconds)

\* bot.py:122-124 entering wait_for_video after create_video_job returned
EnterWait(id) ==
    /\ job_id' = id
    /\ pc' = "status"
    /\ attempt' = 1
    /\ elapsed' = 0
    /\ backoff' = Sec(5)
    /\ polls' = 0
    /\ last_attempt' = NoExc

\* wait_for_video or create_video_job is left: its locals are gone
LeaveCall ==
    /\ attempt' = 0
    /\ elapsed' = 0
    /\ backoff' = 0
    /\ polls' = 0

\* bot.py:50-91 an attempt of create_video_job that returns the job id
SubmitOk(posts) ==
    /\ pc = "submit"
    /\ \E resp \in posts :
         /\ create_video_job_once(resp).ok
         /\ EnterWait(create_video_job_once(resp).value)
    /\ payload' = RunPayload(user_sessions[cur])
    /\ UNCHANGED <<user_sessions, cur, inbound, reply, data, slept, exc, url, outcome>>

\* bot.py:50-91 a failed attempt of create_video_job that tenacity retries
SubmitRetry(posts) ==
    /\ pc = "submit"
    /\ attempt < SubmitAttempts
    /\ \E resp \in posts :
         /\ ~create_video_job_once(resp).ok
         /\ last_attempt' = create_video_job_once(resp).exc
    /\ payload' = RunPayload(user_sessions[cur])
    /\ slept' = Sec(wait_exponential(1, 6, attempt))
    /\ attempt' = attempt + 1
    /\ UNCHANGED <<user_sessions, pc, cur, inbound, reply, job_id,
                   elapsed, backoff, data, polls, exc, url, outcome>>

\* bot.py:50-91 the last attempt of create_video_job fails: tenacity raises
SubmitExhausted(posts) ==
    /\ pc = "submit"
    /\ attempt >= SubmitAttempts
    /\ \E resp \in posts :
         /\ ~create_video_job_once(resp).ok
         /\ last_attempt' = create_video_job_once(resp).exc
         /\ exc' = RetryError(create_video_job_once(resp).exc)
    /\ payload' = RunPayload(user_sessions[cur])
    /\ pc' = "except"
    /\ LeaveCall
    /\ UNCHANGED <<user_sessions, cur, inbound, reply, job_id, data, slept, url, outcome>>

\* bot.py:94-104 a failed attempt of get_job_status that tenacity retries
StatusRetry(gets, lats) ==
    /\ pc = "status"
    /\ attempt < StatusAttempts
    /\ \E resp \in gets, lat \in lats :
         /\ ~get_job_status_once(resp).ok
         /\ last_attempt' = get_job_status_once(resp).exc
         /\ elapsed' = Tick(elapsed, lat + Sec(wait_exponential(1, 10, attempt)))
    /\ slept' = Sec(wait_exponential(1, 10, attempt))
    /\ attempt' = attempt + 1
    /\ UNCHANGED <<user_sessions, pc, cur, inbound, reply, payload, job_id,
                   backoff, data, polls, exc, url, outcome>>

\* bot.py:94-104 the last attempt of get_job_status fails: tenacity raises,
\* and wait_for_video lets it through
StatusExhausted(gets) ==
    /\ pc = "status"
    /\ attempt >= StatusAttempts
    /\ \E resp \in gets :
         /\ ~get_job_status_once(resp).ok
         /\ last_attempt' = get_job_status_once(resp).exc
         /\ exc' = RetryError(get_job_status_once(resp).exc)
    /\ pc' = "except"
    /\ LeaveCall
    /\ UNCHANGED <<user_sessions, cur, inbound, reply, payload, job_id, data, slept,
                   url, outcome>>

\* bot.py:124-136 a non-terminal status: sleep, grow the backoff, and test
\* the loop condition again; TimeoutError when it fails
StatusSleep(gets, lats, cap) ==
    /\ pc = "status"
    /\ polls < cap
    /\ \E resp \in gets, lat \in lats :
         /\ get_job_status_once(resp).ok
         /\ "sleep" \in DOMAIN wait_for_video_step(get_job_status_once(resp).value)
         /\ data' = get_job_status_once(resp).value
         /\ IF WithinTimeout(Tick(elapsed, lat + backoff))
            THEN /\ elapsed' = Tick(elapsed, lat + backoff)
                 /\ backoff' = NextBackoff(backoff)
                 /\ polls' = polls + 1
                 /\ attempt' = 1
                 /\ UNCHANGED <<pc, exc>>
            ELSE /\ pc' = "except"
                 /\ exc' = TimeoutError
                 /\ LeaveCall
    /\ slept' = backoff
    /\ last_attempt' = NoExc
    /\ UNCHANGED <<user_sessions, cur, inbound, reply, payload, job_id, url, outcome>>

\* bot.py:127-131 status "completed" with an output URL: wait_for_video returns
StatusCompleted(gets) ==
    /\ pc = "status"
    /\ \E resp \in gets :
         /\ get_job_status_once(resp).ok
         /\ LET w == wait_for_video_step(get_job_status_once(resp).value)
            IN  /\ "value" \in DOMAIN w
                /\ url' = w.value
         /\ data' = get_job_status_once(resp).value
    /\ pc' = "edit"
    /\ last_attempt' = NoExc
    /\ LeaveCall
    /\ UNCHANGED <<user_sessions, cur, inbound, reply, payload, job_id, slept,
                   exc, outcome>>

\* bot.py:129-133 wait_for_video raises: no output URL, or a failed job
StatusRaises(gets) ==
    /\ pc = "status"
    /\ \E resp \in gets :
         /\ get_job_status_once(resp).ok
         /\ LET w == wait_for_video_step(get_job_status_once(resp).value)
            IN  /\ ~w.ok
                /\ exc' = w.exc
         /\ data' = get_job_status_once(resp).value
    /\ pc' = "except"
    /\ last_attempt' = NoExc
    /\ LeaveCall
    /\ UNCHANGED <<user_sessions, cur, inbound, reply, payload, job_id, slept,
                   url, outcome>>

\* bot.py:230 progress.edit_text; the transport may fail
EditProgress ==
    /\ pc = "edit"
    /\ \E sent \in BOOLEAN :
         IF sent
         THEN /\ reply' = [to |-> cur, kind |-> "done", url |-> url]
              /\ pc' = "finally"
              /\ exc' = exc
         ELSE /\ pc' = "except"
              /\ exc' = TelegramError
              /\ reply' = reply
    /\ UNCHANGED <<user_sessions, cur, inbound, payload, attempt, last_attempt, job_id,
                   elapsed, backoff, data, polls, slept, url, outcome>>

\* bot.py:231-233 except Exception: log and tell the user; if that reply
\* fails too, its exception leaves the handler after the finally block
ReportError ==
    /\ pc = "except"
    /\ \E sent \in BOOLEAN :
         IF sent
         THEN reply' = [to |-> cur, kind |-> "error", text |-> StrExc(exc)]
         ELSE reply' = reply
    /\ outcome' = [result |-> "raised", cause |-> exc]
    /\ pc' = "finally"
    /\ UNCHANGED <<user_sessions, cur, inbound, payload, attempt, last_attempt, job_id,
                   elapsed, backoff, data, polls, slept, exc, url>>

\* the handler returns with `sessions` as the session store
Return(sessions) ==
    /\ pc = "finally"
    /\ user_sessions' = sessions
    /\ outcome' = IF outcome = NoRun THEN [result |-> "success", url |-> url] ELSE outcome
    /\ pc' = "idle"
    /\ payload' = NoPayload
    /\ job_id' = None
    /\ last_attempt' = NoExc
    /\ data' = NoData
    /\ slept' = 0
    /\ exc' = NoExc
    /\ url' = None
    /\ UNCHANGED <<cur, inbound, reply, attempt, elapsed, backoff, polls>>

\* a run handler that drops the session at the end of the try block only
FinallyOnSuccessOnly ==
    Return(IF outcome = NoRun THEN DictPop(user_sessions, cur) ELSE user_sessions)

\* bot.py:234-236 finally: drop the session; the handler returns
Finally == Return(DictPop(user_sessions, cur))

(***************************************************************************)
(* bot.py:295-304 main: the Application handles one update at a time, so a *)
(* handler starts only when none is running (pc = "idle").  Within a run,  *)
(* create_video_job and wait_for_video (requests and time.sleep) are       *)
(* called without await at bot.py:222 and bot.py:229: they hold the event  *)
(* loop's only thread until they return.                                   *)
(***************************************************************************)
Handlers(chats, msgs) ==
    \/ \E c \in chats : Start(c)
    \/ \E c \in chats : HelpCmd(c)
    \/ \E c \in chats : ResetCmd(c)
    \/ \E c \in chats, m \in msgs : TextGoRejected(c, m)
    \/ \E c \in chats, m \in msgs : TextGoAccepted(c, m)
    \/ \E c \in chats, m \in msgs : TextParams(c, m)
    \/ \E c \in chats, m \in msgs : TextAsset(c, m)
    \/ \E c \in chats, m \in msgs : TextNotUrl(c, m)
    \/ \E c \in chats, m \in msgs : TextNoSession(c, m)

\* the steps every run can take
RunSteps(posts, gets, lats, cap) ==
    \/ SubmitOk(posts)
    \/ SubmitRetry(posts)
    \/ SubmitExhausted(posts)
    \/ StatusSleep(gets, lats, cap)
    \/ StatusCompleted(gets)
    \/ StatusRaises(gets)
    \/ EditProgress
    \/ ReportError
    \/ Finally

\* the steps of a run whose status checks can fail
StatusFailures(gets, lats) ==
    \/ StatusRetry(gets, lats)
    \/ StatusExhausted(gets)

\* a remote service that answers at once and whose status endpoint does
\* not fail
PostBasic == { Http(500, Rep("x", 301), NotJson),
               Http(200, <<>>, [job_id |-> <<"J","1">>, id |-> <<"J","2">>]) }

GetBasic == { Http(200, <<>>, d) :
                d \in { [status |-> sQueued],
                        [status |-> sCompleted, output_url |-> uOut, video_url |-> uVideo],
                        [status |-> sFailed] } }

(***************************************************************************)
(* Spec: two conversations, a few texts each, the basic remote service.    *)
(***************************************************************************)
MessagesBasic == {mGo, mFull, mLow, mTwo, mUrl, mJunk}

Next ==
    \/ Handlers(Chats, MessagesBasic)
    \/ RunSteps(PostBasic, GetBasic, {0}, MaxPolls)

Spec == Init /\ [][Next]_vars

(***************************************************************************)
(* SpecParse: one conversation, every text, the basic remote service.      *)
(***************************************************************************)
NextParse ==
    \/ Handlers({1}, Messages)
    \/ RunSteps(PostBasic, GetBasic, {0}, MaxPolls)

SpecParse == Init /\ [][NextParse]_vars

(***************************************************************************)
(* SpecJob: one conversation, a few texts, everything the remote service   *)
(* can do.                                                                 *)
(***************************************************************************)
MessagesJob == {mGo, mGoUpper, mFull, mLow, mUrl}

NextJob ==
    \/ Handlers({1}, MessagesJob)
    \/ RunSteps(PostResponses, GetResponses, Latencies, MaxPolls)
    \/ StatusFailures(GetResponses, Latencies)

SpecJob == Init /\ [][NextJob]_vars

(***************************************************************************)
(* SpecWait: one conversation and a remote service that accepts the job    *)
(* and then reports only non-terminal statuses, each status check          *)
(* returning at its first attempt, at once or after the 20 seconds of the  *)
(* request timeout (bot.py:98).  Every sleep lasts at least 5 seconds, so  *)
(* PollCeiling sleeps cannot fit in hard_timeout and the cap on polls      *)
(* never binds.  The handler is a coroutine that runs on once started: its *)
(* steps are weakly fair.                                                  *)
(***************************************************************************)
PollCeiling == hard_timeout \div 5 + 1

MessagesWait == {mGo, mFull, mUrl, mJunk}

PostWait == { Http(200, <<>>, [job_id |-> <<"J","1">>, id |-> <<"J","2">>]) }

GetWait == { Http(200, <<>>, [status |-> sQueued]),
             Http(200, <<>>, EmptyDict) }

RunWait ==
    \/ SubmitOk(PostWait)
    \/ StatusSleep(GetWait, {0, Sec(20)}, PollCeiling)
    \/ ReportError
    \/ Finally

NextWait ==
    \/ Handlers({1}, MessagesWait)
    \/ RunWait

SpecWait == Init /\ [][NextWait]_vars /\ WF_vars(RunWait)

(***************************************************************************)
(* SpecDispatch: bot.py:295-304, the updates as the Application hands them *)
(* to the handlers registered in main.  An update is the text of a message *)
(* and `command`, the length of the bot_command entity at offset 0 of its  *)
(* entities, 0 when there is none: Telegram marks a leading "/" followed   *)
(* by letters, digits or underscores as such an entity, whether or not the *)
(* bot knows the command.  The handlers are tried in the order they were   *)
(* added and the first that matches handles the update; an update that     *)
(* matches none is dropped without a reply.                                *)
(***************************************************************************)
Update(text_content, command) == [text |-> text_content, command |-> command]

uStart      == Update(sStart, 6)
uStartUpper == Update(<<"/","S","T","A","R","T">>, 6)
uHelp       == Update(sHelp, 5)
uReset      == Update(sReset, 6)
uGo         == Update(mGo, 3)
uGoSpaced   == Update(mGoUpper, 0)
uEmpty      == Update(mEmpty, 0)

Updates == {uStart, uStartUpper, uHelp, uReset, uGo, uGoSpaced, uEmpty}
             \cup {Update(m, 0) : m \in {mFull, mTwo, mUrl, mJunk}}

\* filters.COMMAND: the message starts with a bot_command entity
FilterCommand(u) == u.command > 0

\* filters.TEXT: the message has a text
FilterText(u) == u.text # <<>>

\* bot.py:302 filters.TEXT & ~filters.COMMAND
TextFilter(u) == FilterText(u) /\ ~FilterCommand(u)

\* CommandHandler(name, ...): the leading bot_command entity, without its
\* "/" and in lower case, is the handler's command
IsCommand(u, name) ==
    /\ FilterCommand(u)
    /\ Lower(SubSeq(u.text, 2, u.command)) = name

cStart == <<"s","t","a","r","t">>
cHelp  == <<"h","e","l","p">>
cReset == <<"r","e","s","e","t">>

\* no handler of main matches the update
Unhandled(u) ==
    /\ ~IsCommand(u, cStart)
    /\ ~IsCommand(u, cHelp)
    /\ ~IsCommand(u, cReset)
    /\ ~TextFilter(u)

\* the Application drops an update that no handler matches
Dropped(c, u) ==
    /\ pc = "idle"
    /\ Unhandled(u)
    /\ Handled(c, u.text, user_sessions, NoReply)

\* bot.py:298-303 the update u of conversation c reaches its handler
Dispatch(c, u) ==
    \/ IsCommand(u, cStart) /\ Start(c)
    \/ ~IsCommand(u, cStart) /\ IsCommand(u, cHelp) /\ HelpCmd(c)
    \/ ~IsCommand(u, cStart) /\ ~IsCommand(u, cHelp) /\ IsCommand(u, cReset) /\ ResetCmd(c)
    \/ TextFilter(u) /\ TextGoRejected(c, u.text)
    \/ TextFilter(u) /\ TextGoAccepted(c, u.text)
    \/ TextFilter(u) /\ TextParams(c, u.text)
    \/ TextFilter(u) /\ TextAsset(c, u.text)
    \/ TextFilter(u) /\ TextNotUrl(c, u.text)
    \/ TextFilter(u) /\ TextNoSession(c, u.text)
    \/ Dropped(c, u)

NextDispatch ==
    \/ \E c \in {1}, u \in Updates : Dispatch(c, u)
    \/ RunSteps(PostBasic, GetBasic, {0}, MaxPolls)

SpecDispatch == Init /\ [][NextDispatch]_vars

(***************************************************************************)
(* SpecScript: make_script on its own.  The arguments are drawn at the     *)
(* start, as the fields of the one session of the store (any strings and   *)
(* any integer: make_script does not ask for a validated session), and     *)
(* BuildScript calls it on them as bot.py:213 does.                        *)
(***************************************************************************)
Words == { <<>>, <<"A">>, <<"k","a","f","e">>, <<"(","9","s",")">> }

Durations == {0 - 5, 0, 7, 20, 100}

InitScript ==
    /\ \E product \in Words, audience \in Words, tone \in Words, seconds \in Durations :
         user_sessions = [c \in {1} |->
                            [product |-> product, audience |-> audience, tone |-> tone,
                             seconds |-> seconds, aspect |-> DefaultAspect,
                             assets |-> <<>>]]
    /\ pc = "idle"
    /\ cur = 1
    /\ inbound = None
    /\ reply = NoReply
    /\ payload = NoPayload
    /\ attempt = 0
    /\ last_attempt = NoExc
    /\ data = NoData
    /\ job_id = None
    /\ elapsed = 0
    /\ backoff = 0
    /\ polls = 0
    /\ slept = 0
    /\ exc = NoExc
    /\ url = None
    /\ outcome = NoRun

\* bot.py:213-218 script = make_script(...)
BuildScript ==
    /\ pc = "idle"
    /\ payload = NoPayload
    /\ LET session == user_sessions[cur]
       IN  payload' = [prompt |-> make_script(session.product, session.audience,
                                              session.tone, session.seconds)]
    /\ UNCHANGED <<user_sessions, pc, cur, inbound, reply, attempt, last_attempt,
                   job_id, elapsed, backoff, data, polls, slept, exc, url, outcome>>

NextScript == BuildScript

SpecScript == InitScript /\ [][NextScript]_vars

(***************************************************************************)
(* Properties                                                              *)
(***************************************************************************)
\* the last update handled was an accepted run trigger, and its handler
\* has returned
RunReturned == pc = "idle" /\ outcome # NoRun

\* C1: when the handler of an accepted run trigger has returned, however the
\* run ended, the session store holds no entry for that conversation.
C1_SessionRemovedAfterRun ==
    /\ RunReturned => cur \notin DOMAIN user_sessions
    /\ pc # "idle" => Complete(user_sessions, cur) /\ IsGo(inbound)

\* a run that timed out has returned and its session is gone
C1_Witness ==
    /\ RunReturned
    /\ outcome.result = "raised"
    /\ outcome.cause.type = "TimeoutError"
    /\ cur \notin DOMAIN user_sessions

\* C2: a run trigger for a conversation with no session, or with a session
\* that lacks parameters, is answered with the missing-fields reply, starts
\* no run and sends no request, and leaves the session store as it was.
C2_RejectedRunChangesNothing ==
    [][(pc = "idle" /\ IsGo(inbound') /\ ~Complete(user_sessions, cur'))
        => /\ reply' = Reply(cur', "missing")
           /\ user_sessions' = user_sessions
           /\ pc' = "idle"
           /\ payload' = NoPayload]_vars

\* a run trigger was rejected for a session that holds an asset but no
\* parameters, and the session is still there
C2_Witness ==
    /\ pc = "idle"
    /\ IsGo(inbound)
    /\ reply = Reply(cur, "missing")
    /\ cur \in DOMAIN user_sessions
    /\ "product" \notin DOMAIN user_sessions[cur]
    /\ user_sessions[cur].assets # <<>>

\* the fields of a pipe-delimited text, trimmed
Fields(m) ==
    LET raw == Split(TextContent(m), sPipe)
    IN  [i \in 1..Len(raw) |-> Strip(raw[i])]

\* a pipe-delimited text with at least three fields, the first three not empty
HasRequired(m) ==
    /\ Contains(TextContent(m), sPipe)
    /\ Len(Fields(m)) >= 3
    /\ \A i \in 1..3 : Fields(m)[i] # <<>>

\* a pipe-delimited text with fewer than three fields, or with an empty
\* product, audience or tone
Malformed(m) ==
    /\ Contains(TextContent(m), sPipe)
    /\ \/ Len(Fields(m)) < 3
       \/ \E i \in 1..3 : Fields(m)[i] = <<>>

\* made of the decimal digits 0-9 only
DigitOnly(s) == Len(s) > 0 /\ \A i \in 1..Len(s) : IsDecimal(s[i])

\* the text has a fourth field made of digit characters that int() rejects
OddFourth(m) ==
    /\ Len(Fields(m)) > 3
    /\ IsDigit(Fields(m)[4])
    /\ ~DigitOnly(Fields(m)[4])

\* the session of the conversation handled last holds these parameters
HoldsParams(sessions, c) ==
    /\ c \in DOMAIN sessions
    /\ ParamKeys \cup {"assets"} = DOMAIN sessions[c]

C5_DurationAndAspectInRange ==
    /\ \A c \in DOMAIN user_sessions :
         "seconds" \in DOMAIN user_sessions[c]
           => /\ user_sessions[c].seconds \in 10..45
              /\ user_sessions[c].aspect \in
                   { <<"9",":","1","6">>, <<"1",":","1">>, <<"1","6",":","9">> }
    /\ payload # NoPayload
         => /\ payload.duration \in 10..45
            /\ payload.aspect_ratio \in
                 { <<"9",":","1","6">>, <<"1",":","1">>, <<"1","6",":","9">> }

\* a job was submitted for the line that asked for 5 seconds
C5_Witness ==
    /\ pc = "status"
    /\ payload # NoPayload
    /\ payload.duration = 10
    /\ payload.aspect_ratio = <<"1",":","1">>
    /\ user_sessions[cur].seconds = 10

\* a step in which text() stored a parameter line
LineAccepted == pc = "idle" /\ reply' = Reply(cur', "ok_params")

\* an optionally signed run of decimal digits
IsNumber(s) ==
    \/ DigitOnly(s)
    \/ Len(s) > 1 /\ s[1] \in {"-", "+"} /\ DigitOnly(Tail(s))

NumberValue(s) ==
    IF s[1] = "-" THEN 0 - DecimalValue(Tail(s))
    ELSE IF s[1] = "+" THEN DecimalValue(Tail(s))
    ELSE DecimalValue(s)

\* the aspect ratio C6 expects for an accepted line
ExpectedAspect(f) ==
    IF Len(f) > 4 /\ f[5] \in { <<"9",":","1","6">>, <<"1",":","1">>, <<"1","6",":","9">> }
    THEN f[5] ELSE <<"9",":","1","6">>

\* C6 as claimed: an accepted line stores min(max(n, 10), 45) for a fourth
\* field that is a number n and 20 for one that is absent or not a number,
\* and stores a valid fifth field as given and 9:16 otherwise.
C6_Original ==
    [][LineAccepted
        => LET f == Fields(inbound')
           IN  /\ user_sessions'[cur'].seconds =
                    IF Len(f) > 3 /\ IsNumber(f[4])
                    THEN Min(Max(NumberValue(f[4]), 10), 45) ELSE 20
               /\ user_sessions'[cur'].aspect = ExpectedAspect(f)]_vars

\* C6 amended: an accepted line stores min(max(n, 10), 45) for a fourth field
\* made only of decimal digits, with value n, and 20 for every other fourth
\* field (absent, empty, signed, not a number); the fifth field as claimed.
C6_DurationAndAspectDefaults ==
    [][LineAccepted
        => LET f == Fields(inbound')
           IN  /\ user_sessions'[cur'].seconds =
                    IF Len(f) > 3 /\ DigitOnly(f[4])
                    THEN Min(Max(DecimalValue(f[4]), 10), 45) ELSE 20
               /\ user_sessions'[cur'].aspect = ExpectedAspect(f)]_vars

\* the line with the fourth field -5 was accepted and its duration is 20
C6_Witness ==
    /\ pc = "idle"
    /\ inbound = mNegative
    /\ reply = Reply(cur, "ok_params")
    /\ user_sessions[cur].seconds = 20
    /\ user_sessions[cur].aspect = <<"9",":","1","6">>

\* product, audience and tone are present and not empty
RequiredNonEmpty(session) ==
    \A k \in {"product", "audience", "tone"} : k \in DOMAIN session /\ session[k] # <<>>

\* C7: a stored session passes the run-trigger test exactly when its product,
\* audience and tone are all non-empty, and a run is only ever in progress,
\* and a request body only ever built, for such a session.
C7_CompleteIffRequiredNonEmpty ==
    /\ \A c \in DOMAIN user_sessions :
         Complete(user_sessions, c) <=> RequiredNonEmpty(user_sessions[c])
    /\ pc # "idle" => cur \in DOMAIN user_sessions /\ RequiredNonEmpty(user_sessions[cur])
    /\ payload # NoPayload => payload.style # <<>>

\* a job was submitted for a session whose three required fields are set,
\* after a parameter line with an empty field had been refused
C7_Witness ==
    /\ pc = "status"
    /\ payload # NoPayload
    /\ RequiredNonEmpty(user_sessions[cur])
    /\ Complete(user_sessions, cur)

\* C8: create_video_job makes at most 3 attempts; a failed attempt before the
\* third is followed by another attempt and surfaces nothing; a successful
\* attempt returns its job identifier with no error; only the failure of the
\* third attempt leaves the call with an exception.
C8_SubmitRetriesUpToThree ==
    /\ [](pc = "submit" => attempt \in 1..3)
    /\ [][pc = "submit"
           => \/ /\ pc' = "submit"
                 /\ attempt < 3
                 /\ attempt' = attempt + 1
                 /\ last_attempt' # NoExc
                 /\ exc' = NoExc /\ reply' = reply /\ outcome' = NoRun
              \/ /\ pc' = "status"
                 /\ job_id' \in { <<"J","1">>, <<"J","2">> }
                 /\ exc' = NoExc /\ reply' = reply /\ outcome' = NoRun
              \/ /\ pc' = "except"
                 /\ attempt = 3
                 /\ last_attempt' # NoExc]_vars
    /\ [](pc = "submit" /\ attempt < 3
           => \A r \in PostResponses :
                (r.kind = "raise" \/ r.code >= 400 \/ r.json = NotJson
                   \/ r.json = EmptyDict)
                => ENABLED (SubmitRetry({r}) /\ pc' = "submit"))

\* the third attempt, made after waits of 1 and 2 seconds, returned the job
\* identifier and the wait for the video has begun with no error
C8_Witness ==
    /\ pc = "status"
    /\ polls = 0
    /\ attempt = 1
    /\ slept = Sec(2)
    /\ job_id = <<"J","1">>
    /\ exc = NoExc
    /\ reply = Reply(cur, "starting")

\* what an attempt raises for a status code >= 400
IsStatusCodeError(e) ==
    /\ e.type = "RuntimeError"
    /\ e.what \in {"Sora create job error", "Sora get job error"}

\* C9 as claimed: when the attempts of create_video_job end with non-success
\* status codes, it fails with the job-submission error (the RuntimeError of
\* bot.py:84) carrying the status code and an excerpt of at most 300
\* characters, and that is what the handler reports.
C9_Original ==
    /\ [][(pc = "submit" /\ pc' = "except"
             /\ IsStatusCodeError(last_attempt) /\ IsStatusCodeError(last_attempt'))
           => /\ IsStatusCodeError(exc')
              /\ exc'.detail.status_code >= 400
              /\ Len(exc'.detail.excerpt) <= 300]_vars
    /\ [][(pc = "except" /\ IsStatusCodeError(last_attempt) /\ reply' # reply)
           => /\ reply'.kind = "error"
              /\ "detail" \in DOMAIN reply'.text
              /\ reply'.text.detail.status_code >= 400]_vars

\* str.lower() of the status of a payload, "" when it has none
LoweredStatus(d) == Lower(IF "status" \in DOMAIN d /\ d.status # <<>> THEN d.status ELSE <<>>)

\* the value under key k of a payload is a non-empty URL
HasUrl(d, k) == k \in DOMAIN d /\ d[k] # <<>>

\* C10: when a status check returns, wait_for_video returns exactly if the
\* status is "completed" in any letter case and the payload holds a URL under
\* output_url or, failing that, video_url, and it returns that URL; a
\* completed payload with neither raises the no-output-URL error; nothing
\* but a returning status check ends the wait with a value.
C10_OnlyCompletedReturns ==
    /\ [][(pc = "status" /\ last_attempt' = NoExc)
           => IF LoweredStatus(data') = <<"c","o","m","p","l","e","t","e","d">>
              THEN IF HasUrl(data', "output_url")
                   THEN pc' = "edit" /\ url' = data'.output_url
                   ELSE IF HasUrl(data', "video_url")
                   THEN pc' = "edit" /\ url' = data'.video_url
                   ELSE /\ pc' = "except"
                        /\ exc' = RuntimeError("Completed job has no output URL", data')
              ELSE pc' # "edit" /\ url' = None]_vars
    /\ [][(pc # "edit" /\ pc' = "edit") => (pc = "status" /\ last_attempt' = NoExc)]_vars
    /\ [](url # None => pc \in {"edit", "except", "finally"} /\ (HasUrl(data, "output_url") \/ HasUrl(data, "video_url")))

\* wait_for_video returned the fallback URL of a payload whose status is
\* written COMPLETED, after one non-terminal status
C10_Witness ==
    /\ pc = "edit"
    /\ data.status = <<"C","O","M","P","L","E","T","E","D">>
    /\ url = <<"U","2">>
    /\ slept = Sec(5)

\* the exception bot.py:133 raises for the payload d
JobFailed(d) == RuntimeError("Job failed", d)

\* C11: when a status check returns a payload whose status is "failed",
\* "error" or "canceled" (in any letter case), wait_for_video raises the
\* job-failed error carrying that payload in the same step, without sleeping;
\* from then until the handler returns no status check is made and nothing
\* sleeps.
C11_FailedStatusEndsWaitAtOnce ==
    /\ [][(pc = "status" /\ last_attempt' = NoExc
             /\ LoweredStatus(data') \in { <<"f","a","i","l","e","d">>,
                                           <<"e","r","r","o","r">>,
                                           <<"c","a","n","c","e","l","e","d">> })
           => /\ pc' = "except"
              /\ exc' = JobFailed(data')
              /\ slept' = slept]_vars
    /\ [][(pc \in {"except", "finally"} /\ exc = JobFailed(data) /\ pc' # "idle")
           => /\ pc' \in {"except", "finally"}
              /\ data' = data
              /\ slept' = slept
              /\ last_attempt' = last_attempt
              /\ attempt' = attempt
              /\ polls' = polls]_vars

\* after one non-terminal status and its sleep of 5 seconds, a status check
\* returned "Error" and the job-failed error carrying that payload reached
\* the handler
C11_Witness ==
    /\ pc = "except"
    /\ data = [status |-> <<"E","r","r","o","r">>]
    /\ exc = JobFailed(data)
    /\ slept = Sec(5)

\* C12: wait_for_video starts a status check only while the elapsed time is
\* below hard_timeout, a wait that ends on a non-terminal status ends with
\* TimeoutError, and when every status check returns a non-terminal status
\* the wait eventually ends with TimeoutError.
C12_WaitTimesOut ==
    /\ [](pc = "status" /\ attempt = 1 => elapsed < 900 * 16)
    /\ [][(pc = "status" /\ pc' # "status") => (pc' = "except" /\ exc' = TimeoutError)]_vars
    /\ (pc = "status") ~> (pc = "except" /\ exc = TimeoutError)

\* the wait ended with TimeoutError on a sleep of 20 seconds, the status
\* still "queued"
C12_Witness ==
    /\ pc = "except"
    /\ exc = TimeoutError
    /\ data = [status |-> sQueued]
    /\ slept = Sec(20)

\* C13: every status check of wait_for_video starts with attempt 1 and makes
\* at most 5 attempts; a failed attempt before the fifth is followed by
\* another attempt of the same check and surfaces nothing; when an attempt
\* returns a non-terminal status the next check starts again at attempt 1;
\* a failed fifth attempt ends the wait in that step with the RetryError that
\* carries the failure, and from then until the handler returns there is no
\* status check, no sleep and no new attempt.
C13_StatusCheckBudget ==
    /\ [](pc = "status" => attempt \in 1..5)
    /\ [][(pc = "status" /\ last_attempt' # NoExc)
           => IF attempt < 5
              THEN /\ pc' = "status"
                   /\ attempt' = attempt + 1
                   /\ polls' = polls
                   /\ data' = data
                   /\ exc' = NoExc /\ reply' = reply /\ outcome' = NoRun
              ELSE /\ pc' = "except"
                   /\ exc' = RetryError(last_attempt')
                   /\ data' = data
                   /\ slept' = slept]_vars
    /\ [][(pc = "status" /\ last_attempt' = NoExc /\ pc' = "status")
           => /\ attempt' = 1
              /\ polls' = polls + 1
              /\ exc' = NoExc /\ reply' = reply /\ outcome' = NoRun]_vars
    /\ [][(pc \in {"except", "finally"} /\ exc.type = "RetryError" /\ pc' # "idle")
           => /\ pc' \in {"except", "finally"}
              /\ data' = data
              /\ slept' = slept
              /\ attempt' = attempt
              /\ last_attempt' = last_attempt
              /\ polls' = polls]_vars

\* a first status check returned "queued"; the next one failed five times,
\* the last time after tenacity's wait of 8 seconds, and the RetryError
\* carrying the fifth failure reached the handler
C13_Witness ==
    /\ pc = "except"
    /\ job_id # None
    /\ data = [status |-> sQueued]
    /\ slept = Sec(8)
    /\ exc = RetryError(last_attempt)
    /\ last_attempt.type = "RuntimeError"
    /\ last_attempt.detail.status_code = 503

RECURSIVE Power(_, _)
Power(b, n) == IF n = 0 THEN 1 ELSE b * Power(b, n - 1)

\* min(5 * 1.5^(k-1), 20) in sixteenths of a second.  1.5^(k-1) grows with
\* k and 5 * 1.5^4 > 20, so from k = 5 on the minimum is 20 and the power
\* need not be taken beyond the fourth; up to there 16 * 5 * 3^(k-1) is a
\* multiple of 2^(k-1) and the division is exact.
SleepAfter(k) ==
    LET e == IF k - 1 < 4 THEN k - 1 ELSE 4
    IN  Min((16 * 5 * Power(3, e)) \div Power(2, e), 16 * 20)

\* a step in which a status check returned a non-terminal status, so that
\* wait_for_video sleeps
SleepsNow ==
    /\ pc = "status"
    /\ last_attempt' = NoExc
    /\ LoweredStatus(data') \notin { <<"c","o","m","p","l","e","t","e","d">>,
                                     <<"f","a","i","l","e","d">>,
                                     <<"e","r","r","o","r">>,
                                     <<"c","a","n","c","e","l","e","d">> }

\* C14: the sleep after the k-th non-terminal status of a wait lasts
\* min(5 * 1.5^(k-1), 20) seconds (5 after the first); from one sleep of a
\* wait to the next the interval does not decrease, it is never above 20,
\* and after a sleep of 20 every later sleep of the wait is 20.
C14_SleepSequence ==
    /\ [][SleepsNow => slept' = SleepAfter(polls + 1)]_vars
    /\ [][(SleepsNow /\ polls = 0) => slept' = 16 * 5]_vars
    /\ [][(SleepsNow /\ polls > 0)
           => /\ slept' >= slept
              /\ slept' <= 16 * 20
              /\ (slept = 16 * 20 => slept' = 16 * 20)]_vars

\* six non-terminal statuses in a row, each returned at once: the sleeps
\* were 5, 7.5, 11.25, 16.875, 20 and 20 seconds
C14_Witness ==
    /\ pc = "status"
    /\ polls = 6
    /\ slept = Sec(20)
    /\ elapsed = 80 + 120 + 180 + 270 + 320 + 320

\* the handler of an accepted run trigger has not returned yet
Running == pc \in {"submit", "status", "edit", "except", "finally"}

\* C15: while the run of a conversation is between its start and the
\* removal of the session, no run trigger can be accepted, for that
\* conversation or any other, and the conversation and the text being
\* handled stay the same; a run starts only when no handler is running and
\* no job is held; once the run holds a job identifier it holds no other
\* until the handler returns; when the handler returns the session is gone,
\* so that a further run trigger of the conversation is rejected.
C15_OneJobPerConversation ==
    /\ [](Running => \A c \in Chats, m \in MessagesBasic : ~ENABLED TextGoAccepted(c, m))
    /\ [][Running => (cur' = cur /\ inbound' = inbound)]_vars
    /\ [][(~Running /\ Running') => (pc = "idle" /\ job_id = None /\ job_id' = None)]_vars
    /\ [][job_id # None => job_id' \in {job_id, None}]_vars
    /\ [][(job_id # None /\ job_id' = None)
           => /\ pc' = "idle"
              /\ cur \notin DOMAIN user_sessions'
              /\ ~Complete(user_sessions', cur)]_vars

\* conversation 1 holds a job and waits for it, its session still in the
\* store, while conversation 2 has a complete session too
C15_Witness ==
    /\ pc = "status"
    /\ cur = 1
    /\ job_id # None
    /\ Complete(user_sessions, 1)
    /\ Complete(user_sessions, 2)

\* C16 as claimed: while the handler of one conversation is inside
\* create_video_job or wait_for_video, an update of another conversation
\* can be handled.
C16_Original ==
    pc \in {"submit", "status"}
    => \E c \in Chats \ {cur} : ENABLED Handlers({c}, MessagesBasic)

\* a step in which the text handler handled a text for a conversation that
\* has a session, the text being neither the run trigger nor a line with
\* "|" for a session that has no parameters yet
AssetBranchTaken ==
    /\ pc = "idle" /\ pc' = "idle"
    /\ inbound' \in Messages
    /\ cur' \in DOMAIN user_sessions
    /\ Lower(Strip(inbound')) # <<"/","g","o">>
    /\ ~(Contains(Strip(inbound'), "|") /\ "product" \notin DOMAIN user_sessions[cur'])

\* C17: in such a step, a text that starts with "http" in any letter case
\* is added (stripped) at the end of the conversation's assets, the earlier
\* assets and every other field and session staying as they were, and the
\* reply is the acknowledgement; any other text gets the not-a-URL reply and
\* the session store is unchanged.
C17_AssetAppendedInOrder ==
    [][AssetBranchTaken
        => IF StartsWith(Lower(Strip(inbound')), <<"h","t","t","p">>)
           THEN /\ user_sessions' = [user_sessions EXCEPT
                                       ![cur'].assets = Append(@, Strip(inbound'))]
                /\ reply' = Reply(cur', "asset_added")
           ELSE /\ user_sessions' = user_sessions
                /\ reply' = Reply(cur', "not_url")]_vars

\* "HTTP|b" was acknowledged as the second asset of a session that has its
\* parameters, after "http:a"
C17_Witness ==
    /\ pc = "idle"
    /\ inbound = mUrlPipe
    /\ reply = Reply(1, "asset_added")
    /\ 1 \in DOMAIN user_sessions
    /\ "product" \in DOMAIN user_sessions[1]
    /\ user_sessions[1].assets = << <<"h","t","t","p",":","a">>, <<"H","T","T","P","|","b">> >>

\* t occurs in s as a run of consecutive characters
HasInfix(s, t) ==
    \E i \in 0..(Len(s) - Len(t)) : SubSeq(s, i + 1, i + Len(t)) = t

\* the characters of s between "(" and "s)" somewhere in s are the decimal
\* numeral of n, with a minus sign when n < 0
NamesDuration(s, n) ==
    \E i \in 1..Len(s), j \in 1..Len(s) :
        /\ i < j /\ j < Len(s)
        /\ s[i] = "(" /\ s[j] = "s" /\ s[j + 1] = ")"
        /\ LET numeral == SubSeq(s, i + 1, j - 1)
           IN  IF n < 0
               THEN /\ Len(numeral) > 1 /\ numeral[1] = "-"
                    /\ DigitOnly(Tail(numeral))
                    /\ NumberValue(Tail(numeral)) = 0 - n
               ELSE DigitOnly(numeral) /\ NumberValue(numeral) = n

\* C18: the script built from (product, audience, tone, duration) contains
\* "(<duration>s)", the product, the audience and the tone, whatever the
\* four values; building it changes nothing but the script, and the script
\* built stays the one of these four values.
C18_ScriptNamesItsInputs ==
    /\ [](payload # NoPayload
           => LET session == user_sessions[cur]
              IN  /\ NamesDuration(payload.prompt, session.seconds)
                  /\ HasInfix(payload.prompt, session.product)
                  /\ HasInfix(payload.prompt, session.audience)
                  /\ HasInfix(payload.prompt, session.tone))
    /\ [][payload' # payload
           => UNCHANGED <<user_sessions, pc, cur, inbound, reply, attempt, last_attempt,
                          job_id, elapsed, backoff, data, polls, slept, exc, url,
                          outcome>>]_vars

\* the script of ("kafe", "A", "(9s)", 20) was built
C18_Witness ==
    /\ payload # NoPayload
    /\ payload.prompt =
         <<"Kratka video reklama ", "(", "2", "0", "s", ")", " za ", "'",
           "k", "a", "f", "e", "'", ". ", "Tseleva auditoria: ", "A", ". ", "Ton: ",
           "(", "9", "s", ")", ". ",
           "3-4 dinamichni stseni ... Dobavi chetlivi subtitri.">>

\* s is the beginning of t
IsPrefix(s, t) == Len(s) <= Len(t) /\ SubSeq(t, 1, Len(s)) = s

\* C19 as claimed: unless the start command is handled for it, a
\* conversation that keeps its session keeps the assets acknowledged so far,
\* in order and in front of any new one, and the request built by a run
\* holds exactly the assets of the session, in order.
C19_Original ==
    /\ [][\A c \in Chats :
            (/\ c \in DOMAIN user_sessions
             /\ c \in DOMAIN user_sessions'
             /\ ~(cur' = c /\ inbound' = sStart))
            => IsPrefix(user_sessions[c].assets, user_sessions'[c].assets)]_vars
    /\ [](payload # NoPayload
           => payload.assets = [i \in 1..Len(user_sessions[cur].assets)
                                  |-> [url |-> user_sessions[cur].assets[i]]])

\* C20 as claimed: with the handlers of main, whenever no handler is running
\* and a conversation has a complete session, the update that carries the
\* run trigger "/go" (its text a bot_command entity from the first
\* character on) reaches the text handler and starts the run.
C20_Original ==
    \A c \in {1} :
        (pc = "idle" /\ Complete(user_sessions, c))
        => ENABLED (Dispatch(c, uGo) /\ pc' = "submit")

====
